---- MODULE Spec2Model ----
(***************************************************************************)
(* The OFDM codec of ofdm_codec.py (class OFDM): the constructor, encode,  *)
(* initDecode, decode and findSymbolStartIndex, with the caller's sample   *)
(* buffer and the process-wide random number generator of Python's random  *)
(* module.                                                                 *)
(*                                                                         *)
(* The arithmetic is exact.  A real number is a pair <<p, q>> standing    *)
(* for p + q*sqrt(3), in a fixed unit: 1/24 for the samples of a signal,   *)
(* 1/48 for the bins of a received spectrum and the pilot score, 1/576 for *)
(* the values of the coarse correlation.  The twelfth roots of unity have  *)
(* twice their real and imaginary parts in this form, so the transforms of *)
(* the lengths N that divide 12 are computed without rounding.  A bin of   *)
(* the transmitted spectrum is a pair <<re, im>> of integers, a complex    *)
(* sample a pair <<re, im>> of real numbers.                               *)
(***************************************************************************)
EXTENDS Integers, Sequences, FiniteSets, TLC

\* ------------------------------------------------------------ bounds
MaxDist == 4
MaxData == 2
MaxCyclic == 3
MaxPad == 1
MaxOffset == 2
MaxSeed == 2
MaxSymbols == 2
MaxDecodes == 2
MaxBuf == 9
MaxFindCyclic == 2
MaxCoarse == 5
MaxFine == 3

\* ------------------------------------------------------------ program constants
\* pilotAmplitude = 2, the constructor's default
PilotAmplitude == 2

\* random.seed(s) followed by random.randint(0,255) draws: row s+1 holds the
\* first draws of the generator seeded with s (CPython's Mersenne Twister).
RandTable == << <<197, 215, 20, 132, 248, 207, 155, 244>>,
                <<68, 32, 130, 60, 253, 230, 241, 194>>,
                <<28, 46, 43, 184, 86, 157, 128, 108>>,
                <<121, 66, 189, 242, 33, 6, 240, 132>>,
                <<120, 155, 52, 202, 245, 79, 46, 34>> >>

\* ------------------------------------------------------------ Python helpers
Min(a, b) == IF a < b THEN a ELSE b
Max(a, b) == IF a > b THEN a ELSE b

\* int(a / b) for b > 0: truncation towards zero
TruncDiv(a, b) == IF a >= 0 THEN a \div b ELSE -((-a) \div b)

\* seq[i] with Python's index i (0-based, negative counts from the end)
PyInRange(i, n) == -n <= i /\ i < n
PyPos(i, n) == IF i < 0 THEN i + n ELSE i

\* seq[-c:] : the last c elements for c > 0 (all of seq when c >= len), and
\* seq[0:] (all of seq) for c = 0
SliceLast(seq, c) ==
    LET n == Len(seq)
        start == IF c > 0 THEN Max(n - c, 0) ELSE Min(-c, n)
    IN  SubSeq(seq, start + 1, n)

RECURSIVE Pow2(_)
Pow2(i) == IF i = 0 THEN 1 ELSE 2 * Pow2(i - 1)

\* (1 << bit) & databyte > 0
TestBit(b, bit) == (b \div Pow2(bit)) % 2 = 1

\* a ^ b on bytes
RECURSIVE XorBits(_, _, _)
XorBits(a, b, bit) ==
    IF bit = 8 THEN 0
    ELSE (IF TestBit(a, bit) # TestBit(b, bit) THEN Pow2(bit) ELSE 0)
         + XorBits(a, b, bit + 1)
Xor(a, b) == XorBits(a, b, 0)

Zero == <<0, 0>>

\* ------------------------------------------------------------ real numbers
\* p + q*sqrt(3): sum, negation, product, multiple, sign, order
RZero == <<0, 0>>
RAdd(x, y) == <<x[1] + y[1], x[2] + y[2]>>
RNeg(x) == <<-x[1], -x[2]>>
RSub(x, y) == RAdd(x, RNeg(y))
RMul(x, y) == <<x[1] * y[1] + 3 * x[2] * y[2], x[1] * y[2] + x[2] * y[1]>>
RScale(n, x) == <<n * x[1], n * x[2]>>
RSign(x) ==
    LET p == x[1]
        q == x[2]
    IN  IF p = 0 /\ q = 0 THEN 0
        ELSE IF p >= 0 /\ q >= 0 THEN 1
        ELSE IF p <= 0 /\ q <= 0 THEN -1
        ELSE IF p > 0 THEN (IF p * p > 3 * q * q THEN 1 ELSE -1)
        ELSE (IF 3 * q * q > p * p THEN 1 ELSE -1)
RLess(x, y) == RSign(RSub(x, y)) < 0
RAbs(x) == IF RSign(x) < 0 THEN RNeg(x) ELSE x

\* the samples are kept in units of 1/24: the value v is <<24 * v, 0>>
SampleUnit == 24
Sample(v) == <<SampleUnit * v, 0>>
\* the real sample 0.0
ZeroSample == Sample(0)

\* 2*cos(k*pi/6) for k = 0..11
Cos2 == << <<2, 0>>, <<0, 1>>, <<1, 0>>, <<0, 0>>, <<-1, 0>>, <<0, -1>>,
           <<-2, 0>>, <<0, -1>>, <<-1, 0>>, <<0, 0>>, <<1, 0>>, <<0, 1>> >>
\* 2*exp(2*pi*i*m/12): twice a twelfth root of unity
Twiddle(m) == <<Cos2[(m % 12) + 1], Cos2[((m - 3) % 12) + 1]>>
\* the product of two complex numbers
CMul(x, y) == <<RSub(RMul(x[1], y[1]), RMul(x[2], y[2])),
                RAdd(RMul(x[1], y[2]), RMul(x[2], y[1]))>>
CAdd(x, y) == <<RAdd(x[1], y[1]), RAdd(x[2], y[2])>>
CZero == <<RZero, RZero>>

\* ------------------------------------------------------------ the random module
\* The state of the process-wide generator: the seed it was last seeded with
\* (-1 before any seed call: seeded from the system's entropy) and the number
\* of randint draws since.
RngSeed(seed) == [seed |-> seed, n |-> 0]
RngValue(rng) == RandTable[rng.seed + 1][rng.n + 1]
\* A variant whose generator repeats its first value.
RngStuck(rng) == rng

RngNext(rng) == [rng EXCEPT !.n = @ + 1]

\* ------------------------------------------------------------ OFDM.__init__
KStart(N, d, nData) == TruncDiv(2 * d * N - N - 4 * d * nData, 2 * d)

\* nCyclicArg = 0 stands for the default None (and for 0, equally falsy)
NewOFDM(N, d, A, nData, nCyclicArg) ==
    [ nIFFT |-> N,
      nData |-> nData,
      nCyclic |-> IF nCyclicArg # 0 THEN nCyclicArg ELSE (N * 2) \div 4,
      pilot_distance |-> d,
      pilot_amplitude |-> A,
      k_start |-> KStart(N, d, nData) ]

\* ------------------------------------------------------------ state
VARIABLES
    self,      \* the OFDM object's configuration (set by __init__)
    spectrum,  \* self.spectrum, <<>> before the first encode; bin k is spectrum[k+1]
    dec,       \* self.s, self.rxindex, self.signal, unset before initDecode
    signal,    \* the caller's sample buffer (signal = ofdm.encode(signal, row))
    rng,       \* the state of the process-wide generator of module random
    ret,       \* the last call: its arguments, and what it returned or raised
    txlog,     \* history, per appended symbol: start offset, payload, seed,
               \* the random bytes drawn and the bins written
    hist       \* history: offset of the last initDecode, decode calls since

vars == <<self, spectrum, dec, signal, rng, ret, txlog, hist>>

\* ------------------------------------------------------------ OFDM.encode
\* The loop state: spectrum, frequency index k, pilot counter pc counted in
\* halves (pilot_distance/2 is a float), the generator, and as history the
\* bins written in order (writes) and the random bytes drawn (mask).
EncStart(cfg, seed) ==
    [ spectrum |-> [k \in 1..cfg.nIFFT |-> Zero],
      k |-> cfg.k_start,
      pc |-> cfg.pilot_distance,
      rng |-> RngSeed(seed),
      writes |-> <<>>,
      mask |-> <<>>,
      err |-> "" ]

\* lines 114-120: count down, and on zero write the pilot and step k
EncPilot(cfg, st) ==
    LET pc1 == st.pc - 2
        k1 == st.k + 1
    IN  IF pc1 # 0 THEN [st EXCEPT !.pc = pc1]
        ELSE IF ~PyInRange(st.k, cfg.nIFFT) THEN [st EXCEPT !.err = "IndexError"]
        ELSE [st EXCEPT !.pc = 2 * cfg.pilot_distance,
                        !.spectrum[PyPos(st.k, cfg.nIFFT) + 1] = <<cfg.pilot_amplitude, 0>>,
                        !.writes = Append(@, <<PyPos(st.k, cfg.nIFFT), "pilot">>),
                        !.k = IF ~(k1 < cfg.nIFFT) THEN 0 ELSE k1]

\* A variant that skips the DC bin when the index wraps.
EncDataSkipDC(cfg, st, point) ==
    LET k1 == st.k + 1
    IN  IF st.err # "" THEN st
        ELSE IF ~PyInRange(st.k, cfg.nIFFT) THEN [st EXCEPT !.err = "IndexError"]
        ELSE [st EXCEPT !.spectrum[PyPos(st.k, cfg.nIFFT) + 1] = point,
                        !.writes = Append(@, <<PyPos(st.k, cfg.nIFFT), "data">>),
                        !.k = IF ~(k1 < cfg.nIFFT) THEN 1 ELSE k1]

\* lines 121-127: write the data point and step k
EncData(cfg, st, point) ==
    LET k1 == st.k + 1
    IN  IF st.err # "" THEN st
        ELSE IF ~PyInRange(st.k, cfg.nIFFT) THEN [st EXCEPT !.err = "IndexError"]
        ELSE [st EXCEPT !.spectrum[PyPos(st.k, cfg.nIFFT) + 1] = point,
                        !.writes = Append(@, <<PyPos(st.k, cfg.nIFFT), "data">>),
                        !.k = IF ~(k1 < cfg.nIFFT) THEN 0 ELSE k1]

\* lines 101-108: bitstream[bit] is 1 or -1
BitLevel(databyte, bit) == IF TestBit(databyte, bit) THEN 1 ELSE -1

\* lines 121-122: complex(bitstream[cnum*2], bitstream[cnum*2+1])
QamPoint(databyte, cnum) ==
    <<BitLevel(databyte, cnum * 2), BitLevel(databyte, cnum * 2 + 1)>>

\* lines 112-127: the four frequency samples of one byte
RECURSIVE EncBins(_, _, _, _)
EncBins(cfg, st, databyte, cnum) ==
    IF cnum = 4 \/ st.err # "" THEN st
    ELSE EncBins(cfg, EncData(cfg, EncPilot(cfg, st), QamPoint(databyte, cnum)),
                 databyte, cnum + 1)

\* lines 89-127: the loop over the nData bytes; data[x] raises IndexError
\* when the payload has no element x
RECURSIVE EncBytes(_, _, _, _)
EncBytes(cfg, st, data, x) ==
    IF x = cfg.nData \/ st.err # "" THEN st
    ELSE IF x >= Len(data) THEN [st EXCEPT !.err = "IndexError"]
    ELSE LET r == RngValue(st.rng)
             databyte == Xor(data[x + 1], r)
             drawn == [st EXCEPT !.rng = RngNext(@), !.mask = Append(@, r)]
         IN  EncBytes(cfg, EncBins(cfg, drawn, databyte, 0), data, x + 1)

\* np.fft.ifft(spectrum): sample n is (1/N) * sum over k of
\* X[k] * exp(2*pi*i*n*k/N), here in units of 1/24, for N dividing 12
RECURSIVE IfftSum(_, _, _)
IfftSum(X, n, k) ==
    IF k = Len(X) THEN CZero
    ELSE CAdd(CMul(<<<<X[k + 1][1], 0>>, <<X[k + 1][2], 0>>>>,
                   Twiddle((12 \div Len(X)) * n * k)),
              IfftSum(X, n, k + 1))
Ifft(X) ==
    [n \in 1..Len(X) |->
        LET c == IfftSum(X, n - 1, 0)
        IN  <<RScale(12 \div Len(X), c[1]), RScale(12 \div Len(X), c[2])>>]
ReOf(c) == c[1]
ImOf(c) == c[2]
\* s * v for s in {1, -1} and a real sample v
Times(s, v) == RScale(s, v)

\* lines 144-151: the quadrature modulator, from complex sample i on with sign s
RECURSIVE NyquistMod(_, _, _)
NyquistMod(csym, i, s) ==
    IF i > Len(csym) THEN <<>>
    ELSE <<Times(s, ReOf(csym[i])), Times(s, ImOf(csym[i]))>>
         \o NyquistMod(csym, i + 1, s * (-1))

\* lines 131-162: the framed symbol appended for a spectrum
\* A variant whose prefix is counted in complex samples (two reals each).
FrameComplexPrefix(cfg, X) ==
    LET tx_symbol == NyquistMod(Ifft(X), 1, 1)
        cyclicPrefix == SliceLast(tx_symbol, 2 * cfg.nCyclic)
    IN  cyclicPrefix \o tx_symbol

\* A variant whose prefix is the tail of the signal encoded so far.
FrameSignalTail(cfg, X) ==
    LET tx_symbol == NyquistMod(Ifft(X), 1, 1)
        cyclicPrefix == SliceLast(signal, cfg.nCyclic)
    IN  cyclicPrefix \o tx_symbol

Frame(cfg, X) ==
    LET tx_symbol == NyquistMod(Ifft(X), 1, 1)
        cyclicPrefix == SliceLast(tx_symbol, cfg.nCyclic)
    IN  cyclicPrefix \o tx_symbol

NoRet ==
    [ op |-> "none", ok |-> TRUE, err |-> "", arg |-> <<>>, seed |-> 0,
      data |-> <<>>, im |-> RZero, mask |-> <<>>, writes |-> <<>>, at |-> 0,
      rng0 |-> rng, first |-> FALSE,
      crosscorr |-> <<>>, imagpilots |-> <<>>, o1 |-> 0, o2 |-> 0,
      coarse |-> 0, fine |-> 0 ]

Encode(data, seed) ==
    LET st == EncBytes(self, EncStart(self, seed), data, 0)
        r0 == [NoRet EXCEPT !.op = "encode", !.arg = data, !.seed = seed,
                            !.mask = st.mask, !.writes = st.writes,
                            !.at = Len(signal)]
    IN  /\ spectrum' = st.spectrum
        /\ rng' = st.rng
        /\ IF st.err # ""
           THEN /\ signal' = signal
                /\ txlog' = txlog
                /\ ret' = [r0 EXCEPT !.ok = FALSE, !.err = st.err]
           ELSE /\ signal' = signal \o Frame(self, st.spectrum)
                /\ txlog' = Append(txlog, [start |-> Len(signal),
                                           data |-> SubSeq(data, 1, self.nData),
                                           seed |-> seed,
                                           mask |-> st.mask,
                                           writes |-> st.writes])
                /\ ret' = r0
        /\ UNCHANGED <<self, dec, hist>>

\* ------------------------------------------------------------ OFDM.initDecode
\* A variant that keeps the cursor where it is.
InitDecoderKeepCursor(sig, offset) ==
    [init |-> TRUE, s |-> 1, rxindex |-> dec.rxindex, signal |-> sig]

\* lines 171-173: the decoder attributes initDecode sets
InitDecoder(sig, offset) ==
    [init |-> TRUE, s |-> 1, rxindex |-> offset, signal |-> sig]

InitDecode(offset) ==
    /\ dec' = InitDecoder(signal, offset)
    /\ hist' = [o |-> offset, n |-> 0, ok |-> TRUE]
    /\ ret' = [NoRet EXCEPT !.op = "initDecode", !.at = offset]
    /\ UNCHANGED <<self, spectrum, signal, rng, txlog>>

\* ------------------------------------------------------------ OFDM.decode
\* lines 190-196: the quadrature demodulator. d: the decoder attributes,
\* rx: the complex samples read so far, a: the loop index
RECURSIVE Demod(_, _, _, _)
Demod(cfg, d, rx, a) ==
    LET n == Len(d.signal)
        i1 == d.rxindex
        i2 == d.rxindex + 1
    IN  IF a = cfg.nIFFT THEN [d |-> d, rx |-> rx, err |-> ""]
        ELSE IF ~PyInRange(i1, n) THEN [d |-> d, rx |-> rx, err |-> "IndexError"]
        ELSE IF ~PyInRange(i2, n)
             THEN [d |-> [d EXCEPT !.rxindex = i2], rx |-> rx, err |-> "IndexError"]
        ELSE Demod(cfg,
                   [d EXCEPT !.rxindex = i2 + 1, !.s = d.s * (-1)],
                   Append(rx, <<Times(d.s, d.signal[PyPos(i1, n) + 1]),
                                Times(d.s, d.signal[PyPos(i2, n) + 1])>>),
                   a + 1)

\* line 184: skip the cyclic prefix
SkipPrefix(cfg, d) == [d EXCEPT !.rxindex = d.rxindex + cfg.nCyclic]

\* np.fft.fft(rx_symbol): bin k is the sum over a of
\* rx[a] * exp(-2*pi*i*a*k/N), here in units of 1/48, for N dividing 12
RECURSIVE FftSum(_, _, _)
FftSum(rx, k, a) ==
    IF a = Len(rx) THEN CZero
    ELSE CAdd(CMul(rx[a + 1], Twiddle(-((12 \div Len(rx)) * a * k))),
              FftSum(rx, k, a + 1))
Fft(rx) == [k \in 1..Len(rx) |-> FftSum(rx, k - 1, 0)]

\* np.fft.fft works in floating point.  The transforms of length 1, 2 and 4
\* of whole-numbered samples, and of a block of zeros, use no rounded
\* product: their bins are exact.  In every other transform a component
\* whose exact value is zero comes out as a rounding residue, a tiny number
\* of either sign or zero, as the FFT library of the build has it.
Rounded(rx) ==
    /\ \E a \in 1..Len(rx) : rx[a] # CZero
    /\ ~ /\ Len(rx) \in {1, 2, 4}
          /\ \A a \in 1..Len(rx), c \in 1..2 :
                rx[a][c][2] = 0 /\ rx[a][c][1] % SampleUnit = 0

Abs(x) == IF x < 0 THEN -x ELSE x
\* np.heaviside(x, 0)
Heaviside(x) == IF RSign(x) > 0 THEN 1 ELSE 0
\* the bit sliced from x depends on the sign of a rounding residue
Residue(x, rounded) == IF rounded /\ x = RZero THEN 1 ELSE 0

DecStart(cfg, seed) ==
    [ k |-> cfg.k_start,
      pc |-> cfg.pilot_distance,
      rng |-> RngSeed(seed),
      bits |-> [b \in 1..8 |-> 0],
      rounded |-> FALSE,
      resbits |-> [b \in 1..8 |-> 0],
      residue |-> <<>>,
      data |-> <<>>,
      im |-> RZero,
      writes |-> <<>>,
      mask |-> <<>>,
      err |-> "" ]

\* lines 226-232: count down, and on zero add the pilot's imaginary part
DecPilot(cfg, st, isymbol) ==
    LET pc1 == st.pc - 2
        k1 == st.k + 1
    IN  IF pc1 # 0 THEN [st EXCEPT !.pc = pc1]
        ELSE IF ~PyInRange(st.k, cfg.nIFFT) THEN [st EXCEPT !.err = "IndexError"]
        ELSE [st EXCEPT !.pc = 2 * cfg.pilot_distance,
                        !.im = RAdd(@, RAbs(isymbol[PyPos(st.k, cfg.nIFFT) + 1][2])),
                        !.writes = Append(@, <<PyPos(st.k, cfg.nIFFT), "pilot">>),
                        !.k = IF ~(k1 < cfg.nIFFT) THEN 0 ELSE k1]

\* lines 233-241: slice the two bits of bin k and step k
DecData(cfg, st, isymbol, cnum) ==
    LET k1 == st.k + 1
        c == isymbol[PyPos(st.k, cfg.nIFFT) + 1]
    IN  IF st.err # "" THEN st
        ELSE IF ~PyInRange(st.k, cfg.nIFFT) THEN [st EXCEPT !.err = "IndexError"]
        ELSE [st EXCEPT !.bits[cnum * 2 + 1] = Heaviside(c[1]),
                        !.bits[cnum * 2 + 2] = Heaviside(c[2]),
                        !.resbits[cnum * 2 + 1] = Residue(c[1], st.rounded),
                        !.resbits[cnum * 2 + 2] = Residue(c[2], st.rounded),
                        !.writes = Append(@, <<PyPos(st.k, cfg.nIFFT), "data">>),
                        !.k = IF ~(k1 < cfg.nIFFT) THEN 0 ELSE k1]

RECURSIVE DecBins(_, _, _, _)
DecBins(cfg, st, isymbol, cnum) ==
    IF cnum = 4 \/ st.err # "" THEN st
    ELSE DecBins(cfg, DecData(cfg, DecPilot(cfg, st, isymbol), isymbol, cnum),
                 isymbol, cnum + 1)

\* lines 245-251: assemble the byte with bit-wise or
RECURSIVE BitsToByte(_, _)
BitsToByte(bits, bit) ==
    IF bit = 8 THEN 0
    ELSE (IF bits[bit + 1] > 0 THEN Pow2(bit) ELSE 0) + BitsToByte(bits, bit + 1)

\* lines 218-258: the loop over the nData bytes.  data holds the bytes with
\* every bit of a rounding residue read as 0, residue the bits concerned
RECURSIVE DecBytes(_, _, _, _)
DecBytes(cfg, st, isymbol, x) ==
    IF x = cfg.nData \/ st.err # "" THEN st
    ELSE LET b == DecBins(cfg, [st EXCEPT !.bits = [i \in 1..8 |-> 0],
                                          !.resbits = [i \in 1..8 |-> 0]],
                          isymbol, 0)
             r == RngValue(b.rng)
         IN  IF b.err # "" THEN b
             ELSE DecBytes(cfg,
                           [b EXCEPT !.rng = RngNext(@), !.mask = Append(@, r),
                                     !.residue = Append(@, BitsToByte(b.resbits, 0)),
                                     !.data = Append(@, Xor(BitsToByte(b.bits, 0), r))],
                           isymbol, x + 1)

\* lines 199-258: the transform of the block read and the bytes sliced from it
DecBlock(cfg, seed, rx) ==
    DecBytes(cfg, [DecStart(cfg, seed) EXCEPT !.rounded = Rounded(rx)], Fft(rx), 0)

\* the byte arrays decode can return: each bit read from a rounding residue
\* is 0 or 1
ResidueMasks(residue) ==
    { m \in 0..255 : \A bit \in 0..7 : TestBit(m, bit) => TestBit(residue, bit) }
RECURSIVE Outcomes(_, _, _)
Outcomes(data, residue, x) ==
    IF x > Len(data) THEN { <<>> }
    ELSE { <<Xor(data[x], m)>> \o rest :
              m \in ResidueMasks(residue[x]), rest \in Outcomes(data, residue, x + 1) }

Decode(seed) ==
    LET r0 == [NoRet EXCEPT !.op = "decode", !.seed = seed,
                            !.first = (dec.init /\ hist.n = 0)]
    IN  IF ~dec.init
        THEN \* self.rxindex does not exist yet
             /\ ret' = [r0 EXCEPT !.ok = FALSE, !.err = "AttributeError"]
             /\ UNCHANGED <<self, spectrum, dec, signal, rng, txlog, hist>>
        ELSE
          LET dm == Demod(self, SkipPrefix(self, dec), <<>>, 0)
              st == DecBlock(self, seed, dm.rx)
              r1 == [r0 EXCEPT !.at = dec.rxindex]
          IN  /\ dec' = dm.d
              /\ IF dm.err # ""
                 THEN /\ rng' = rng
                      /\ ret' = [r1 EXCEPT !.ok = FALSE, !.err = dm.err]
                      /\ hist' = [hist EXCEPT !.n = @ + 1, !.ok = FALSE]
                 ELSE /\ rng' = st.rng
                      /\ hist' = [hist EXCEPT !.n = @ + 1, !.ok = @ /\ st.err = ""]
                      /\ \E data \in Outcomes(st.data, st.residue, 1) :
                            ret' = [r1 EXCEPT !.ok = (st.err = ""), !.err = st.err,
                                              !.data = data, !.im = st.im,
                                              !.mask = st.mask, !.writes = st.writes]
              /\ UNCHANGED <<self, spectrum, signal, txlog>>

\* ------------------------------------------------------------ OFDM.findSymbolStartIndex
\* signal[a:b] for 0 <= a <= b
PySlice(seq, a, b) == SubSeq(seq, Min(a, Len(seq)) + 1, Min(b, Len(seq)))

RECURSIVE DotAt(_, _, _, _, _)
\* sum over n of a[n + ka] * v[n + kv], n over the shorter length m
DotAt(a, v, ka, kv, n) ==
    IF n > Min(Len(a), Len(v)) THEN RZero
    ELSE RAdd(RMul(a[n + ka], v[n + kv]), DotAt(a, v, ka, kv, n + 1))

\* np.correlate(s1, s2), mode 'valid': one value per full overlap of the
\* shorter array with the longer one; an empty array is an error
Correlate(s1, s2) ==
    IF Len(s1) = 0 \/ Len(s2) = 0 THEN [err |-> "ValueError", v |-> <<>>]
    ELSE IF Len(s1) >= Len(s2)
         THEN [err |-> "",
               v |-> [j \in 1..(Len(s1) - Len(s2) + 1) |-> DotAt(s1, s2, j - 1, 0, 1)]]
         ELSE [err |-> "",
               v |-> [j \in 1..(Len(s2) - Len(s1) + 1) |->
                         DotAt(s1, s2, 0, Len(s2) - Len(s1) - (j - 1), 1)]]

\* lines 277-282: the coarse loop, appending np.correlate's values
RECURSIVE CoarseLoop(_, _, _, _, _)
CoarseLoop(cfg, sig, i, searchrangecoarse, crosscorr) ==
    IF i >= searchrangecoarse THEN [err |-> "", v |-> crosscorr]
    ELSE LET s1 == PySlice(sig, i, i + cfg.nCyclic)
             s2 == PySlice(sig, i + cfg.nIFFT * 2, i + cfg.nIFFT * 2 + cfg.nCyclic)
             cc == Correlate(s1, s2)
         IN  IF cc.err # "" THEN [err |-> cc.err, v |-> crosscorr]
             ELSE CoarseLoop(cfg, sig, i + 1, searchrangecoarse, crosscorr \o cc.v)

\* scipy.signal.find_peaks, the local maxima: indices (from 0) of the
\* samples higher than both neighbours, the middle of a flat top (rounded
\* down); the first and the last sample are never peaks
RECURSIVE LocalMaxima(_, _, _)
RECURSIVE FlatEnd(_, _, _)
FlatEnd(x, i, ahead) ==
    IF ahead < Len(x) - 1 /\ x[ahead + 1] = x[i + 1]
    THEN FlatEnd(x, i, ahead + 1) ELSE ahead
LocalMaxima(x, i, peaks) ==
    IF ~(i < Len(x) - 1) THEN peaks
    ELSE IF RLess(x[i], x[i + 1])
         THEN LET ahead == FlatEnd(x, i, i + 1)
              IN  IF RLess(x[ahead + 1], x[i + 1])
                  THEN LocalMaxima(x, ahead + 1, Append(peaks, (i + ahead - 1) \div 2))
                  ELSE LocalMaxima(x, i + 1, peaks)
         ELSE LocalMaxima(x, i + 1, peaks)

\* scipy.signal.find_peaks, distance: from the highest peak down, drop the
\* peaks closer than distance to a kept one.  The order comes from
\* np.argsort, which leaves the order of equal peaks to the sorting routine
\* of the build: of equal peaks either may be taken first.  The result is
\* the set of the selections the orders give.
RECURSIVE SelectByDistance(_, _, _, _, _)
SelectByDistance(x, peaks, distance, keep, done) ==
    LET todo == { j \in 1..Len(peaks) : j \notin done /\ j \in keep }
        top == { a \in todo : \A b \in todo :
                    ~RLess(x[peaks[a] + 1], x[peaks[b] + 1]) }
        near(j) == { k \in 1..Len(peaks) :
                       k # j /\ Abs(peaks[k] - peaks[j]) < distance }
    IN  IF todo = {} THEN { keep }
        ELSE UNION { SelectByDistance(x, peaks, distance, keep \ near(j),
                                      done \cup {j}) : j \in top }

RECURSIVE Filter(_, _, _)
Filter(peaks, keep, j) ==
    IF j > Len(peaks) THEN <<>>
    ELSE (IF j \in keep THEN <<peaks[j]>> ELSE <<>>) \o Filter(peaks, keep, j + 1)

\* the peak arrays find_peaks(x, distance=distance) can return
FindPeaks(x, distance) ==
    LET peaks == LocalMaxima(x, 1, <<>>)
    IN  { Filter(peaks, keep, 1) :
            keep \in SelectByDistance(x, peaks, distance, 1..Len(peaks), {}) }

\* np.argmin: the index (from 0) of the first minimum
ArgMin(x) == CHOOSE j \in 0..(Len(x) - 1) :
                 /\ \A b \in 0..(Len(x) - 1) : ~RLess(x[b + 1], x[j + 1])
                 /\ \A b \in 0..(j - 1) : RLess(x[j + 1], x[b + 1])

\* lines 288-292: the fine loop, initDecode and decode() at each candidate.
\* st: the decoder attributes, the generator and the scores so far
RECURSIVE FineLoop(_, _, _, _, _)
FineLoop(cfg, sig, i, stop, st) ==
    IF i >= stop THEN st
    ELSE LET d0 == InitDecoder(sig, i)
             dm == Demod(cfg, SkipPrefix(cfg, d0), <<>>, 0)
             by == DecBlock(cfg, 1, dm.rx)
         IN  IF dm.err # ""
             THEN [st EXCEPT !.d = dm.d, !.err = dm.err, !.last = i]
             ELSE IF by.err # ""
             THEN [st EXCEPT !.d = dm.d, !.err = by.err, !.last = i, !.rng = by.rng]
             ELSE FineLoop(cfg, sig, i + 1, stop,
                           [st EXCEPT !.d = dm.d, !.rng = by.rng, !.last = i,
                                      !.imagpilots = Append(@, by.im)])

\* lines 285-296: the search from the peaks found on
FindFrom(sig, searchrangecoarseArg, searchrangefine, crosscorr, pks) ==
    LET o1 == pks[1]
        fi == FineLoop(self, sig, o1 - searchrangefine, o1 + searchrangefine,
                       [d |-> dec, rng |-> rng, imagpilots |-> <<>>, err |-> "",
                        last |-> hist.o])
        r0 == [NoRet EXCEPT !.op = "find", !.coarse = searchrangecoarseArg,
                            !.fine = searchrangefine, !.seed = 1]
    IN  IF pks = <<>>
        THEN \* pks[0] without a peak
             /\ ret' = [r0 EXCEPT !.ok = FALSE, !.err = "IndexError",
                                  !.crosscorr = crosscorr]
             /\ UNCHANGED <<dec, rng, hist>>
        ELSE /\ dec' = fi.d
             /\ rng' = fi.rng
             /\ hist' = IF searchrangefine > 0
                        THEN [o |-> fi.last, n |-> 1, ok |-> fi.err = ""]
                        ELSE hist
             /\ IF fi.err # ""
                THEN ret' = [r0 EXCEPT !.ok = FALSE, !.err = fi.err,
                                       !.crosscorr = crosscorr, !.o1 = o1,
                                       !.at = fi.last]
                ELSE IF fi.imagpilots = <<>>
                THEN \* np.argmin of an empty array
                     ret' = [r0 EXCEPT !.ok = FALSE, !.err = "ValueError",
                                       !.crosscorr = crosscorr, !.o1 = o1]
                ELSE ret' = [r0 EXCEPT !.crosscorr = crosscorr, !.o1 = o1,
                                       !.imagpilots = fi.imagpilots,
                                       !.at = fi.last,
                                       !.o2 = o1 + ArgMin(fi.imagpilots)
                                              - searchrangefine]

Find(sig, searchrangecoarseArg, searchrangefine) ==
    LET searchrangecoarse == IF searchrangecoarseArg # 0 THEN searchrangecoarseArg
                             ELSE self.nIFFT * 10
        co == CoarseLoop(self, sig, 0, searchrangecoarse, <<>>)
        r0 == [NoRet EXCEPT !.op = "find", !.coarse = searchrangecoarseArg,
                            !.fine = searchrangefine, !.seed = 1]
    IN  /\ UNCHANGED <<self, spectrum, signal, txlog>>
        /\ IF co.err # ""
           THEN \* np.correlate of an empty slice
                /\ ret' = [r0 EXCEPT !.ok = FALSE, !.err = co.err,
                                     !.crosscorr = co.v]
                /\ UNCHANGED <<dec, rng, hist>>
           ELSE \E pks \in FindPeaks(co.v, self.nIFFT * 2) :
                   FindFrom(sig, searchrangecoarseArg, searchrangefine, co.v, pks)

\* ------------------------------------------------------------ inputs
\* the seeds the callers pass (randomSeed, default 1)
Seeds == (MaxSeed - 1)..MaxSeed

\* row y of the transmitted image, cut or extended to len bytes: bytes
\* spread over 0..255
Payload(y, len) == [j \in 1..len |-> (27 * (j + 3 * y) + 100 * y) % 256]

\* the next row, with nData bytes, and with one byte less and one more
Payloads(cfg) ==
    { Payload(Len(txlog), len) : len \in (cfg.nData - 1)..(cfg.nData + 1) }

\* the configurations: nIFFT odd and even (lengths that divide 12, whose
\* transforms are exact), pilot distances from 2 on, the default pilot
\* amplitude and none, the default cyclic prefix, an explicit one within the
\* 2*nIFFT samples of a symbol and one longer than the symbol
FftLengths == {1, 3, 6, 12}
PilotAmplitudes == {0, PilotAmplitude}
Configs ==
    { NewOFDM(N, d, A, nData, c) :
        N \in FftLengths, d \in (MaxDist - 2)..MaxDist, A \in PilotAmplitudes,
        nData \in (MaxData - 1)..MaxData, c \in {0, MaxCyclic} }
    \cup
    { NewOFDM(N, d, A, nData, 2 * N + 1) :
        N \in FftLengths, d \in (MaxDist - 2)..MaxDist, A \in PilotAmplitudes,
        nData \in (MaxData - 1)..MaxData }

\* start offsets given to initDecode: the first samples of the buffer,
\* whether a symbol starts there or not, and the starts of the appended
\* symbols
Offsets == (0..MaxOffset) \cup {txlog[j].start : j \in 1..Len(txlog)}

\* ------------------------------------------------------------ specification
Init ==
    /\ self \in Configs
    /\ spectrum = <<>>
    /\ dec = [init |-> FALSE, s |-> 1, rxindex |-> 0, signal |-> <<>>]
    /\ signal = [i \in 1..MaxPad |-> ZeroSample]
    /\ rng = [seed |-> -1, n |-> 0]
    /\ ret = [ op |-> "none", ok |-> TRUE, err |-> "", arg |-> <<>>, seed |-> 0,
               data |-> <<>>, im |-> RZero, mask |-> <<>>, writes |-> <<>>, at |-> 0,
               rng0 |-> [seed |-> -1, n |-> 0], first |-> FALSE,
               crosscorr |-> <<>>, imagpilots |-> <<>>, o1 |-> 0, o2 |-> 0,
               coarse |-> 0, fine |-> 0 ]
    /\ txlog = <<>>
    /\ hist = [o |-> 0, n |-> 0, ok |-> TRUE]

\* No method of the class catches an exception: a call that raises ends
\* the run.
Running == ret.ok

\* the symbols are appended one by one, then the decoding starts
DoEncode ==
    /\ Running
    /\ ~dec.init
    /\ Len(txlog) < MaxSymbols
    /\ \E data \in Payloads(self), seed \in Seeds : Encode(data, seed)

DoInitDecode ==
    /\ Running
    /\ hist.n < MaxDecodes
    /\ \E offset \in Offsets : InitDecode(offset)

DoDecode ==
    /\ Running
    /\ hist.n < MaxDecodes
    /\ \E seed \in Seeds : Decode(seed)

Next == DoEncode \/ DoInitDecode \/ DoDecode

Spec == Init /\ [][Next]_vars

\* ------------------------------------------------------------ the search
\* The receiver's search: findSymbolStartIndex on a received buffer, then
\* initDecode at the offset found and decode (ofdm_wifi.py).  The buffers
\* are short sequences of the samples 0 and 1, the FFT lengths 2 and 4.
FftSizes == {2, 4}
FindConfigs ==
    { NewOFDM(N, 2, PilotAmplitude, 1, c) : N \in FftSizes, c \in {0, MaxFindCyclic} }
Buffers ==
    UNION { [1..len -> {Sample(0), Sample(1)}] : len \in (MaxBuf - 1)..MaxBuf }
CoarseRanges == {0} \cup ((MaxCoarse - 1)..MaxCoarse)
FineRanges == (MaxFine - 3)..MaxFine

InitFind ==
    /\ self \in FindConfigs
    /\ spectrum = <<>>
    /\ dec = [init |-> FALSE, s |-> 1, rxindex |-> 0, signal |-> <<>>]
    /\ signal \in Buffers
    /\ rng = [seed |-> -1, n |-> 0]
    /\ ret = [ op |-> "none", ok |-> TRUE, err |-> "", arg |-> <<>>, seed |-> 0,
               data |-> <<>>, im |-> RZero, mask |-> <<>>, writes |-> <<>>, at |-> 0,
               rng0 |-> [seed |-> -1, n |-> 0], first |-> FALSE,
               crosscorr |-> <<>>, imagpilots |-> <<>>, o1 |-> 0, o2 |-> 0,
               coarse |-> 0, fine |-> 0 ]
    /\ txlog = <<>>
    /\ hist = [o |-> 0, n |-> 0, ok |-> TRUE]

DoFind ==
    /\ ret.op = "none"
    /\ \E coarse \in CoarseRanges, fine \in FineRanges :
          Find(signal, coarse, fine)

DoInitDecodeFound ==
    /\ ret.op = "find" /\ ret.ok
    /\ InitDecode(ret.o2)

DoDecodeFound ==
    /\ ret.op \in {"initDecode", "decode"}
    /\ DoDecode

NextFind == DoFind \/ DoInitDecodeFound \/ DoDecodeFound

SpecFind == InitFind /\ [][NextFind]_vars

\* ------------------------------------------------------------ properties
\* The number of pilots the countdown of d/2, d, d, ... yields in the
\* 4*nData passes of the loop: none for an odd d, whose half is never whole.
NumPilots(cfg) ==
    Cardinality({ t \in 1..(4 * cfg.nData) :
                    /\ cfg.pilot_distance % 2 = 0
                    /\ (2 * t - cfg.pilot_distance) % (2 * cfg.pilot_distance) = 0 })

\* the bins of the active band: the run of data and pilot bins from k_start
BandLen(cfg) == 4 * cfg.nData + NumPilots(cfg)
ActiveBins(cfg) == { (cfg.k_start + j) % cfg.nIFFT : j \in 0..(BandLen(cfg) - 1) }
\* the active band fits in the spectrum
Fits(cfg) == BandLen(cfg) <= cfg.nIFFT

\* the samples encode appends: the prefix tx_symbol[-nCyclic:] of the symbol
\* of 2*nIFFT samples (at most the symbol, and all of it for nCyclic = 0)
\* and the symbol
FrameLen(cfg) ==
    (IF cfg.nCyclic > 0 THEN Min(cfg.nCyclic, 2 * cfg.nIFFT) ELSE 2 * cfg.nIFFT)
    + 2 * cfg.nIFFT
\* the samples decode advances the cursor by: the prefix skipped and the
\* 2*nIFFT samples read
DecodeAdvance(cfg) == cfg.nCyclic + 2 * cfg.nIFFT

Encoded == ret.op = "encode" /\ ret.ok
Decoded == ret.op = "decode" /\ ret.ok

\* the bins of a write log, by kind, in order
RECURSIVE BinsOf(_, _)
BinsOf(writes, kind) ==
    IF writes = <<>> THEN <<>>
    ELSE (IF Head(writes)[2] = kind THEN <<Head(writes)[1]>> ELSE <<>>)
         \o BinsOf(Tail(writes), kind)

IsQamPoint(c) == c[1] \in {1, -1} /\ c[2] \in {1, -1}

\* C1: round trip without channel. In every configuration (nIFFT, pilot
\* distance, nData, nCyclic) whose active band fits, the first decode after
\* initDecode at the start offset of an encoded symbol, with the seed of its
\* encode, returns exactly the symbol's payload.
C1_RoundTrip ==
    \A j \in 1..Len(txlog) :
        ( /\ ret.op = "decode" /\ ret.first
          /\ Fits(self)
          /\ ret.at = txlog[j].start
          /\ ret.seed = txlog[j].seed )
        => (ret.ok /\ ret.data = txlog[j].data)

\* C2 as stated: after encode the DC bin is zero and every bin that is not
\* a data or pilot bin is zero.
C2_DCZero ==
    Encoded =>
        /\ spectrum[1] = Zero
        /\ \A k \in 0..(self.nIFFT - 1) :
              (\A w \in 1..Len(ret.writes) : ret.writes[w][1] # k)
              => spectrum[k + 1] = Zero

\* C2 amended: after encode every bin that is not a data bin or a pilot bin
\* (outside the run of 4*nData + P bins from k_start, modulo nIFFT) is
\* zero; the DC bin is a bin of the run whenever the run wraps, and then
\* holds what was written to it, a data point or the pilot amplitude.
C2_ZeroOutsideBand ==
    Encoded =>
        /\ \A k \in 0..(self.nIFFT - 1) :
              k \notin ActiveBins(self) => spectrum[k + 1] = Zero
        /\ 0 \in ActiveBins(self) =>
              \/ IsQamPoint(spectrum[1])
              \/ spectrum[1] = <<self.pilot_amplitude, 0>>

\* the band wraps: the DC bin carries a point, and a guard bin is zero
C2_Witness ==
    /\ Encoded
    /\ 0 \in ActiveBins(self) /\ spectrum[1] # Zero
    /\ \E k \in 1..(self.nIFFT - 1) : spectrum[k + 1] = Zero

\* C3: for every configuration no bin is written twice during one encode,
\* pilot and data bins are disjoint, and exactly 4*nData bins hold data.
C3_Partition ==
    Encoded =>
        /\ \A a, b \in 1..Len(ret.writes) :
              a # b => ret.writes[a][1] # ret.writes[b][1]
        /\ Cardinality({ k \in 1..self.nIFFT : IsQamPoint(spectrum[k]) })
             = 4 * self.nData

\* C4: for every d >= 2 there is a pilot d/2 bins after k_start, and
\* consecutive pilots are d bins apart modulo nIFFT.
C4_PilotEveryDth ==
    LET p == BinsOf(ret.writes, "pilot")
        d == self.pilot_distance
    IN  (Encoded /\ d >= 2 /\ 4 * self.nData > d \div 2) =>
            /\ Len(p) >= 1
            /\ p[1] = (self.k_start + d \div 2) % self.nIFFT
            /\ \A i \in 1..(Len(p) - 1) : p[i + 1] = (p[i] + d) % self.nIFFT

\* C5: in a loopback at the true offset the pilot score is zero, and decode
\* visits the bins encode wrote, as pilot and as data, in the same order.
C5_PilotScoreZero ==
    \A j \in 1..Len(txlog) :
        (Decoded /\ ret.first /\ ret.at = txlog[j].start)
        => (ret.im = RZero /\ ret.writes = txlog[j].writes)
\* C6 as stated: encode returns a signal 2*(N + C) samples longer.
C6_LengthLawComplex ==
    Encoded => Len(signal) = ret.at + 2 * (self.nIFFT + self.nCyclic)

\* C6 amended: encode returns a signal exactly C + 2*N real samples longer
\* than its input (the prefix is C real samples, 1 <= C <= 2*N), whatever the
\* payload and the seed.
C6_LengthLaw ==
    (Encoded /\ 1 <= self.nCyclic /\ self.nCyclic <= 2 * self.nIFFT)
    => Len(signal) = ret.at + self.nCyclic + 2 * self.nIFFT

\* a second symbol appended to a stream, with a prefix given by the caller
C6_Witness ==
    /\ Encoded /\ Len(txlog) = 2
    /\ self.nCyclic = MaxCyclic /\ self.nCyclic <= 2 * self.nIFFT
    /\ Len(signal) = ret.at + FrameLen(self)
    /\ Len(signal) # ret.at + 2 * (self.nIFFT + self.nCyclic)

\* the spectrum encode built for a symbol of the stream
SymbolSpectrum(e) == EncBytes(self, EncStart(self, e.seed), e.data, 0).spectrum

\* C7: after initDecode(buffer, o) and k successful decodes the cursor is
\* o + k*(C + 2*N); when o is the start of a framed symbol, the k-th decode
\* starts at the start of the k-th framed symbol from there, and the 2*N
\* samples it reads after the C it skips are that symbol's body.
C7_CursorLaw ==
    /\ (dec.init /\ hist.ok) =>
           dec.rxindex = hist.o + hist.n * DecodeAdvance(self)
    /\ \A j \in 1..Len(txlog) :
           ( /\ Decoded /\ hist.ok /\ hist.o = txlog[j].start
             /\ j + hist.n - 1 <= Len(txlog) )
           => /\ ret.at = txlog[j + hist.n - 1].start
              /\ dec.rxindex = ret.at + self.nCyclic + 2 * self.nIFFT
              /\ dec.rxindex <= Len(dec.signal)
              /\ SubSeq(dec.signal, ret.at + self.nCyclic + 1, dec.rxindex)
                   = NyquistMod(Ifft(SymbolSpectrum(txlog[j + hist.n - 1])), 1, 1)

\* the generator's sequence r_0, r_1, ... restarted from the seed
MaskOf(seed, n) == [i \in 1..n |-> RngValue([seed |-> seed, n |-> i - 1])]

\* C8: encode and decode XOR byte i with the same r_i, the generator's
\* sequence restarted from the seed at each call, for every symbol of a
\* stream; applying the mask twice yields the input byte.
C8_SameMask ==
    /\ (Encoded \/ Decoded) => ret.mask = MaskOf(ret.seed, self.nData)
    /\ \A j \in 1..Len(txlog) :
          /\ txlog[j].mask = MaskOf(txlog[j].seed, self.nData)
          /\ (Decoded /\ ret.seed = txlog[j].seed) => ret.mask = txlog[j].mask
          /\ \A i \in 1..self.nData :
                Xor(Xor(txlog[j].data[i], txlog[j].mask[i]), txlog[j].mask[i])
                    = txlog[j].data[i]

\* the second decode of a two-symbol stream, two bytes per symbol, both
\* symbols encoded with its seed
C8_Witness ==
    /\ Decoded /\ hist.n = 2 /\ Len(txlog) = 2 /\ self.nData = 2
    /\ txlog[1].seed = ret.seed /\ txlog[2].seed = ret.seed
    /\ ret.mask = txlog[2].mask
    /\ ret.mask[1] # ret.mask[2]

\* C9 as stated: the process-wide generator is in the same state after an
\* encode or decode call as before it.
C9_NoGlobalState ==
    ret.op \in {"encode", "decode"} => rng = ret.rng0

\* C10: encode fails and appends nothing whenever the payload length
\* differs from nData, shorter or longer.
C10_LengthMismatch ==
    (ret.op = "encode" /\ Len(ret.arg) # self.nData) =>
        (~ret.ok /\ Len(signal) = ret.at)
\* F(x) for the symbols j.. of the stream, one after the other
RECURSIVE FramesFrom(_)
FramesFrom(j) ==
    IF j > Len(txlog) THEN <<>>
    ELSE Frame(self, SymbolSpectrum(txlog[j])) \o FramesFrom(j + 1)

\* C12: sequential encoding composes by concatenation: the signal after the
\* encodes is the initial signal followed by F(a), F(b), ... where F(x) is
\* the frame encode builds for x alone; the earlier samples are unchanged
\* and a frame depends neither on the signal nor on the symbols before it.
C12_Concatenation ==
    /\ signal = [i \in 1..MaxPad |-> ZeroSample] \o FramesFrom(1)
    /\ \A j \in 1..Len(txlog) :
          LET F == Frame(self, SymbolSpectrum(txlog[j]))
          IN  SubSeq(signal, txlog[j].start + 1, txlog[j].start + Len(F)) = F

\* two symbols with different payloads encoded one after the other
C12_Witness ==
    /\ Encoded /\ Len(txlog) = 2
    /\ txlog[1].data # txlog[2].data
    /\ txlog[2].start = MaxPad + FrameLen(self)
    /\ Len(signal) = MaxPad + 2 * FrameLen(self)

\* C13: for every N, even or odd, the running sign of the demodulator is +1
\* at the start of every decode call that follows an initDecode, as the
\* modulator restarts its sign at +1 for every symbol.
C13_SignRestarts ==
    (dec.init /\ hist.ok) => dec.s = 1
Found == ret.op = "find" /\ ret.ok

\* the coarse range in effect: the argument, or 10*N for None (and 0)
CoarseRange == IF ret.coarse # 0 THEN ret.coarse ELSE self.nIFFT * 10

\* the pilot score of initDecode(signal, i) followed by decode()
ScoreAt(i) ==
    DecBlock(self, 1,
             Demod(self, SkipPrefix(self, InitDecoder(signal, i)), <<>>, 0).rx).im

\* C11: findSymbolStartIndex fails whenever its fine window leaves the
\* buffer at either end: it returns only if o1 - w >= 0 and
\* o1 + w - 1 + C + 2*N <= len(buffer).
C11_WindowInBuffer ==
    Found => /\ ret.o1 - ret.fine >= 0
             /\ ret.o1 + ret.fine - 1 + DecodeAdvance(self) <= Len(signal)

\* m is a peak of x: the middle (rounded down) of a run of equal samples
\* with a lower sample on either side
PeakAt(x, m) ==
    \E l \in 1..(Len(x) - 2) : \E r \in l..(Len(x) - 2) :
        /\ m = (l + r) \div 2
        /\ \A i \in l..r : x[i + 1] = x[l + 1]
        /\ RLess(x[l], x[l + 1])
        /\ RLess(x[r + 2], x[r + 1])

\* C14: findSymbolStartIndex returns o2 = o1 + argmin(P) - w.  o1 is the
\* first peak of the coarse correlation, of peaks closer than the distance
\* 2*N the highest and of equal ones the earliest: o1 is a peak, no peak
\* closer than 2*N is higher, and every earlier peak is closer than 2*N and
\* strictly lower.  P has 2*w entries, the pilot scores of the decodes
\* started at o1 - w + j: o2 is in [o1 - w, o1 + w), its score is a minimum
\* of the window and the earliest of equal minima.
C14_FineMinimum ==
    Found =>
        LET w == ret.fine
            P == ret.imagpilots
            x == ret.crosscorr
            j2 == ret.o2 - (ret.o1 - w)
        IN  /\ PeakAt(x, ret.o1)
            /\ \A p \in 0..(Len(x) - 1) :
                  (PeakAt(x, p) /\ Abs(p - ret.o1) < self.nIFFT * 2)
                  => ~RLess(x[ret.o1 + 1], x[p + 1])
            /\ \A p \in 0..(ret.o1 - 1) :
                  PeakAt(x, p) => /\ ret.o1 - p < self.nIFFT * 2
                                  /\ RLess(x[p + 1], x[ret.o1 + 1])
            /\ Len(P) = 2 * w
            /\ \A j \in 0..(2 * w - 1) : P[j + 1] = ScoreAt(ret.o1 - w + j)
            /\ ret.o1 - w <= ret.o2 /\ ret.o2 < ret.o1 + w
            /\ \A j \in 0..(2 * w - 1) : ~RLess(P[j + 1], P[j2 + 1])
            /\ \A j \in 0..(j2 - 1) : RLess(P[j2 + 1], P[j + 1])

\* C15: for every buffer the correlation array has exactly
\* searchrangecoarse entries, entry i being the correlation of
\* buffer[i : i+C] with buffer[i+2N : i+2N+C], also when the slices are
\* cut short by the buffer end.
C15_OneEntryPerOffset ==
    Found =>
        /\ Len(ret.crosscorr) = CoarseRange
        /\ \A i \in 0..(Len(ret.crosscorr) - 1) :
              ret.crosscorr[i + 1] =
                  DotAt(PySlice(signal, i, i + self.nCyclic),
                        PySlice(signal, i + self.nIFFT * 2,
                                i + self.nIFFT * 2 + self.nCyclic), 0, 0, 1)

\* C16: on return from findSymbolStartIndex (w >= 1) the stored buffer is
\* the searched signal and the cursor is (o1 + w - 1) + C + 2*N, the end of
\* the last candidate, not o2; initDecode(signal, o2) resets the cursor to
\* o2 and the sign to +1.
C16_SearchLeavesCursor ==
    /\ Found =>
          /\ ret.fine >= 1
          /\ dec.init /\ dec.signal = signal
          /\ dec.rxindex = (ret.o1 + ret.fine - 1) + self.nCyclic + 2 * self.nIFFT
          /\ dec.rxindex # ret.o2
    /\ ret.op = "initDecode" =>
          /\ dec.signal = signal
          /\ dec.rxindex = ret.at
          /\ dec.s = 1

\* a search that returned an offset before the cursor it left
C16_Witness ==
    /\ Found /\ ret.fine >= 1
    /\ ret.o1 - ret.fine >= 0
    /\ dec.rxindex = (ret.o1 + ret.fine - 1) + DecodeAdvance(self)
    /\ dec.rxindex > ret.o2 + DecodeAdvance(self)

====
